---- MODULE Spec2Model ----
(***************************************************************************)
(* A state-machine model of the BCS decoder of src/src/de.rs.             *)
(*                                                                         *)
(* The decoder is a recursive descent over the shape of the target type.  *)
(* The recursion is made explicit: `stack` holds one frame per container  *)
(* decode in progress, `pc` says where control is (about to call a        *)
(* deserialize_* method on `cur`, back in the visitor of the top frame,   *)
(* propagating an error, in the driver's end check, or done).             *)
(*                                                                         *)
(* Every handler of the source is an operator from decoder state to       *)
(* decoder state (the `&mut self` of the Rust code); the actions apply    *)
(* them to the variables.                                                 *)
(*                                                                         *)
(* TLC integers are 32 bits wide, so a u32 / u64 / u128 is held as its    *)
(* little-endian base-65536 limbs (a u32 is <<lo, hi>>).                  *)
(***************************************************************************)
EXTENDS Integers, Sequences, FiniteSets, TLC

VARIABLES
    mode,                \* "slice" (Deserializer<&[u8]>) or "reader" (Deserializer<TeeReader<R>>)
    bytes,               \* the whole input handed to the driver (never changes)
    shape,               \* the shape of the target type T (never changes)
    with_limit,          \* whether a *_with_limit driver is called
    limit,               \* its `limit` argument
    pc,                  \* "start", "call", "visit", "err", "end", "done"
    cur,                 \* the shape whose deserialize_* method is about to be called
    input,               \* slice mode: self.input; reader mode: what the reader has not yet handed over
    max_remaining_depth, \* Deserializer::max_remaining_depth
    captured_keys,       \* TeeReader::captured_keys
    stack,               \* the container decodes in progress, outermost first
    error,               \* the Err being propagated
    value,               \* the driver's `t`
    result               \* what the driver returned

vars == <<mode, bytes, shape, with_limit, limit, pc, cur, input,
          max_remaining_depth, captured_keys, stack, error, value, result>>

(***************************************************************************)
(* Program constants (crate root, not under src/).                         *)
(***************************************************************************)
MAX_CONTAINER_DEPTH == 500
MAX_SEQUENCE_LENGTH == 2147483647

(***************************************************************************)
(* Bounds of the model.                                                    *)
(***************************************************************************)
MaxLen == 3
MaxUlebLen == 5
MaxMapLen == 6
MaxLenTail == 2
MaxIntLen == 17
MaxNest == 3
MaxDepthIn == 2

(***************************************************************************)
(* Sequences and machine words.                                            *)
(***************************************************************************)
Min(a, b) == IF a < b THEN a ELSE b

Take(q, n) == SubSeq(q, 1, n)

Drop(q, n) == SubSeq(q, n + 1, Len(q))

Seqs(A, n) == UNION {[1..k -> A] : k \in 0..n}

RECURSIVE Pow2(_)
Pow2(n) == IF n = 0 THEN 1 ELSE 2 * Pow2(n - 1)

RECURSIVE BitAnd(_, _)
BitAnd(x, y) ==
    IF x = 0 \/ y = 0 THEN 0
    ELSE 2 * BitAnd(x \div 2, y \div 2) + (IF x % 2 = 1 /\ y % 2 = 1 THEN 1 ELSE 0)

RECURSIVE BitOr(_, _)
BitOr(x, y) ==
    IF x = 0 THEN y
    ELSE IF y = 0 THEN x
    ELSE 2 * BitOr(x \div 2, y \div 2) + (IF x % 2 = 1 \/ y % 2 = 1 THEN 1 ELSE 0)

U64Zero == <<0, 0, 0, 0>>

\* u64::from(digit) << shift, for a 7-bit digit and shift < 32
U64Shl(digit, shift) ==
    LET q == shift \div 16
        part == digit * Pow2(shift % 16)
    IN [i \in 1..4 |-> IF i = q + 1 THEN part % 65536
                       ELSE IF i = q + 2 THEN part \div 65536
                       ELSE 0]

U64Or(a, b) == [i \in 1..4 |-> BitOr(a[i], b[i])]

\* mutant: `value as u32`
U32Truncate(v) == [ok |-> TRUE, val |-> <<v[1], v[2]>>]

\* u32::try_from(value: u64)
U32TryFrom(v) ==
    IF v[3] = 0 /\ v[4] = 0 THEN [ok |-> TRUE, val |-> <<v[1], v[2]>>]
    ELSE [ok |-> FALSE, val |-> <<0, 0>>]

\* a > b for a u32 a (limbs) and a constant b that fits a TLC integer
U32Gt(a, b) ==
    \/ a[2] > b \div 65536
    \/ a[2] = b \div 65536 /\ a[1] > b % 65536

\* `len as usize`, for a u32 known not to exceed MAX_SEQUENCE_LENGTH
AsUsize(a) == a[2] * 65536 + a[1]

\* mutant: uN::from_be_bytes
from_be_bytes(b) ==
    LET n == Len(b) IN
    IF n = 1 THEN b[1]
    ELSE IF n = 2 THEN b[2] + 256 * b[1]
    ELSE [i \in 1..(n \div 2) |-> b[n - 2 * i + 2] + 256 * b[n - 2 * i + 1]]

\* uN::from_le_bytes: a u8 or u16 is a TLC integer, anything wider its limbs
from_le_bytes(b) ==
    IF Len(b) = 1 THEN b[1]
    ELSE IF Len(b) = 2 THEN b[1] + 256 * b[2]
    ELSE [i \in 1..(Len(b) \div 2) |-> b[2 * i - 1] + 256 * b[2 * i]]

\* `u as iN`: the same bits read as two's complement (wider than 16 bits: the limbs as they are)
AsSigned(u, w) ==
    IF w = 1 THEN (IF u >= 128 THEN u - 256 ELSE u)
    ELSE IF w = 2 THEN (IF u >= 32768 THEN u - 65536 ELSE u)
    ELSE u

IsCont(b) == b >= 128 /\ b <= 191

\* str::from_utf8(..).is_ok()
RECURSIVE Utf8Valid(_)
Utf8Valid(b) ==
    IF b = <<>> THEN TRUE
    ELSE LET c == b[1] n == Len(b) IN
        IF c < 128 THEN Utf8Valid(Drop(b, 1))
        ELSE IF c >= 194 /\ c <= 223
            THEN n >= 2 /\ IsCont(b[2]) /\ Utf8Valid(Drop(b, 2))
        ELSE IF c >= 224 /\ c <= 239
            THEN /\ n >= 3
                 /\ IsCont(b[2]) /\ IsCont(b[3])
                 /\ (c = 224 => b[2] >= 160)
                 /\ (c = 237 => b[2] <= 159)
                 /\ Utf8Valid(Drop(b, 3))
        ELSE IF c >= 240 /\ c <= 244
            THEN /\ n >= 4
                 /\ IsCont(b[2]) /\ IsCont(b[3]) /\ IsCont(b[4])
                 /\ (c = 240 => b[2] >= 144)
                 /\ (c = 244 => b[2] <= 143)
                 /\ Utf8Valid(Drop(b, 4))
        ELSE FALSE

RECURSIVE SliceGe(_, _)
\* mutant: a > b, an equal key passes
SliceGt(a, b) ==
    \E k \in 0..Min(Len(a), Len(b)) :
        /\ \A i \in 1..k : a[i] = b[i]
        /\ k < Len(a)
        /\ (k < Len(b) => a[k + 1] > b[k + 1])

\* <[u8] as Ord>: a >= b, lexicographic, a proper prefix being smaller
SliceGe(a, b) ==
    IF b = <<>> THEN TRUE
    ELSE IF a = <<>> THEN FALSE
    ELSE IF a[1] > b[1] THEN TRUE
    ELSE IF a[1] < b[1] THEN FALSE
    ELSE SliceGe(Drop(a, 1), Drop(b, 1))

(***************************************************************************)
(* Shapes, errors, frames.                                                 *)
(***************************************************************************)
Sh(k, name, fields) == [k |-> k, name |-> name, fields |-> fields]

NoShape == Sh("none", "", <<>>)

Err(kind) == [kind |-> kind, name |-> "", len |-> <<0, 0>>]

NoError == Err("none")

NoResult == [ok |-> FALSE, val |-> <<>>, err |-> NoError]

NoKey == [some |-> FALSE, bytes |-> <<>>]

\* the shapes whose deserialize_* method calls enter_named_container and then the visitor
NamedKinds == {"struct", "tuple_struct", "newtype_struct", "enum", "enum_index"}

IntWidth(k) ==
    CASE k \in {"u8", "i8"} -> 1
      [] k \in {"u16", "i16"} -> 2
      [] k \in {"u32", "i32"} -> 4
      [] k \in {"u64", "i64"} -> 8
      [] k \in {"u128", "i128"} -> 16

UnsignedKinds == {"u8", "u16", "u32", "u64", "u128"}

SignedKinds == {"i8", "i16", "i32", "i64", "i128"}

UnsupportedKinds == {"f32", "f64", "char", "any", "ignored_any"}

\* SeqDeserializer::new / MapDeserializer::new together with the visitor's own progress
Frame(sh, remaining, phase) ==
    [shape |-> sh,
     remaining |-> remaining,
     phase |-> phase,
     vals |-> <<>>,
     previous_key_bytes |-> NoKey,
     previous_input_slice |-> <<>>,
     key_bytes |-> <<>>,
     key_start |-> 0,
     key_spans |-> <<>>]

Top(s) == s.stack[Len(s.stack)]

Pop(s) == [s EXCEPT !.stack = Take(@, Len(@) - 1)]

Push(s, f) == [s EXCEPT !.stack = Append(@, f)]

\* Ok(v) handed back to whoever called deserialize: the visitor of the top frame, or the driver
Return(s, v) ==
    IF s.stack = <<>>
    THEN [s EXCEPT !.value = v, !.pc = "end", !.cur = NoShape]
    ELSE [s EXCEPT !.stack[Len(s.stack)].vals = Append(@, v), !.pc = "visit", !.cur = NoShape]

\* Err(e) handed back: every caller on the way up applies `?`
Fail(s, e) == [s EXCEPT !.error = e, !.pc = "err", !.cur = NoShape]

\* seed.deserialize(&mut *self) about to run for shape sh
Call(s, sh) == [s EXCEPT !.pc = "call", !.cur = sh]

\* bytes of the input consumed so far
Consumed(s) == Len(s.bytes) - Len(s.input)

(***************************************************************************)
(* Byte source.                                                            *)
(***************************************************************************)
\* TeeReader::read: what the reader hands over is appended to the last capture buffer
TeeReader_read(s, n) ==
    LET k == Min(n, Len(s.input))
        got == Take(s.input, k)
        caps == s.captured_keys
    IN [s |-> [s EXCEPT !.input = Drop(@, k),
                        !.captured_keys =
                            IF caps = <<>> THEN caps
                            ELSE [caps EXCEPT ![Len(caps)] = @ \o got]],
        data |-> got]

\* `?` on a crate::io::Error: From<io::Error> for Error
From_io_Error(kind) == IF kind = "UnexpectedEof" THEN Err("Eof") ELSE Err("Io")

\* Read::read_exact on the TeeReader: reads until the buffer is full or the reader is dry
read_exact(s, n) ==
    LET r == TeeReader_read(s, n)
    IN [s |-> r.s, ok |-> Len(r.data) = n, data |-> r.data,
        err |-> From_io_Error("UnexpectedEof")]

\* Deserializer<&[u8]>::peek and ::next
next_slice(s) ==
    IF s.input = <<>>
    THEN [s |-> s, ok |-> FALSE, data |-> <<>>, err |-> Err("Eof")]
    ELSE [s |-> [s EXCEPT !.input = Drop(@, 1)], ok |-> TRUE,
          data |-> <<s.input[1]>>, err |-> NoError]

\* Deserializer<&[u8]>::fill_slice: one next() per byte
RECURSIVE fill_slice_slice(_, _)
fill_slice_slice(s, n) ==
    IF n = 0 THEN [s |-> s, ok |-> TRUE, data |-> <<>>, err |-> NoError]
    ELSE LET r == next_slice(s) IN
        IF ~r.ok THEN r
        ELSE LET t == fill_slice_slice(r.s, n - 1) IN
            [s |-> t.s, ok |-> t.ok, data |-> r.data \o t.data, err |-> t.err]

fill_slice(s, n) ==
    IF s.mode = "slice" THEN fill_slice_slice(s, n) ELSE read_exact(s, n)

\* BcsDeserializer::next (the slice mode overrides it)
next(s) ==
    IF s.mode = "slice" THEN next_slice(s) ELSE fill_slice(s, 1)

(***************************************************************************)
(* Primitive decoders.  Each returns [s, ok, val, err].  A decoder that    *)
(* reads and then decides is written as the decision applied to the read   *)
(* (x_of(read)), so that each definition uses the one before it once.      *)
(***************************************************************************)
bool_of(r) ==
    IF ~r.ok THEN [s |-> r.s, ok |-> FALSE, val |-> FALSE, err |-> r.err]
    ELSE IF r.data[1] = 0 THEN [s |-> r.s, ok |-> TRUE, val |-> FALSE, err |-> NoError]
    ELSE IF r.data[1] = 1 THEN [s |-> r.s, ok |-> TRUE, val |-> TRUE, err |-> NoError]
    ELSE [s |-> r.s, ok |-> FALSE, val |-> FALSE, err |-> Err("ExpectedBoolean")]

parse_bool(s) == bool_of(next(s))

uint_of(r) ==
    IF ~r.ok THEN [s |-> r.s, ok |-> FALSE, val |-> 0, err |-> r.err]
    ELSE [s |-> r.s, ok |-> TRUE, val |-> from_le_bytes(r.data), err |-> NoError]

\* parse_u8 .. parse_u128: w bytes, little-endian
parse_uint(s, w) == uint_of(IF w = 1 THEN next(s) ELSE fill_slice(s, w))

RECURSIVE uleb128_loop(_, _, _)
RECURSIVE uleb128_digit(_, _, _)
\* mutant: the heaviest digit may be zero
uleb128_digit_any_last(r, shift, val) ==
    IF ~r.ok THEN [s |-> r.s, ok |-> FALSE, val |-> <<0, 0>>, err |-> r.err]
    ELSE LET byte == r.data[1]
             digit == BitAnd(byte, 127)
             v == U64Or(val, U64Shl(digit, shift))
             u == U32TryFrom(v)
         IN IF digit = byte
            THEN [s |-> r.s, ok |-> u.ok, val |-> u.val,
                  err |-> IF u.ok THEN NoError
                          ELSE Err("IntegerOverflowDuringUleb128Decoding")]
            ELSE uleb128_loop(r.s, shift + 7, v)

\* the body of the loop of parse_u32_from_uleb128, r being `self.next()`
uleb128_digit(r, shift, val) ==
    IF ~r.ok THEN [s |-> r.s, ok |-> FALSE, val |-> <<0, 0>>, err |-> r.err]
    ELSE LET byte == r.data[1]
             digit == BitAnd(byte, 127)
             v == U64Or(val, U64Shl(digit, shift))
             u == U32TryFrom(v)
         IN IF digit = byte
            THEN IF shift > 0 /\ digit = 0
                 THEN [s |-> r.s, ok |-> FALSE, val |-> <<0, 0>>,
                       err |-> Err("NonCanonicalUleb128Encoding")]
                 ELSE [s |-> r.s, ok |-> u.ok, val |-> u.val,
                       err |-> IF u.ok THEN NoError
                               ELSE Err("IntegerOverflowDuringUleb128Decoding")]
            ELSE uleb128_loop(r.s, shift + 7, v)

\* for shift in (0..32).step_by(7)
uleb128_loop(s, shift, val) ==
    IF shift >= 32
    THEN [s |-> s, ok |-> FALSE, val |-> <<0, 0>>,
          err |-> Err("IntegerOverflowDuringUleb128Decoding")]
    ELSE uleb128_digit(next(s), shift, val)

parse_u32_from_uleb128(s) == uleb128_loop(s, 0, U64Zero)

\* mutant: a length equal to MAX_SEQUENCE_LENGTH is refused too
length_of_strict(r) ==
    IF ~r.ok THEN [s |-> r.s, ok |-> FALSE, val |-> 0, err |-> r.err]
    ELSE IF U32Gt(r.val, MAX_SEQUENCE_LENGTH - 1)
    THEN [s |-> r.s, ok |-> FALSE, val |-> 0,
          err |-> [kind |-> "ExceededMaxLen", name |-> "", len |-> r.val]]
    ELSE [s |-> r.s, ok |-> TRUE, val |-> AsUsize(r.val), err |-> NoError]

length_of(r) ==
    IF ~r.ok THEN [s |-> r.s, ok |-> FALSE, val |-> 0, err |-> r.err]
    ELSE IF U32Gt(r.val, MAX_SEQUENCE_LENGTH)
    THEN [s |-> r.s, ok |-> FALSE, val |-> 0,
          err |-> [kind |-> "ExceededMaxLen", name |-> "", len |-> r.val]]
    ELSE [s |-> r.s, ok |-> TRUE, val |-> AsUsize(r.val), err |-> NoError]

parse_length(s) == length_of(parse_u32_from_uleb128(s))

vec_filled(r) ==
    [s |-> r.s, ok |-> r.ok, val |-> IF r.ok THEN r.data ELSE <<>>,
     err |-> IF r.ok THEN NoError ELSE r.err]

vec_of(l) ==
    IF ~l.ok THEN [s |-> l.s, ok |-> FALSE, val |-> <<>>, err |-> l.err]
    ELSE vec_filled(fill_slice(l.s, l.val))

\* reader mode: vec![0; len], then fill_slice
parse_vec(s) == vec_of(parse_length(s))

\* mutant: a short input yields the bytes there are
bytes_of_short(l) ==
    IF ~l.ok THEN [s |-> l.s, ok |-> FALSE, val |-> <<>>, err |-> l.err]
    ELSE [s |-> [l.s EXCEPT !.input = Drop(@, Min(l.val, Len(@)))], ok |-> TRUE,
          val |-> Take(l.s.input, Min(l.val, Len(l.s.input))), err |-> NoError]

bytes_of(l) ==
    IF ~l.ok THEN [s |-> l.s, ok |-> FALSE, val |-> <<>>, err |-> l.err]
    ELSE IF l.val > Len(l.s.input)
    THEN [s |-> l.s, ok |-> FALSE, val |-> <<>>, err |-> Err("Eof")]
    ELSE [s |-> [l.s EXCEPT !.input = Drop(@, l.val)], ok |-> TRUE,
          val |-> Take(l.s.input, l.val), err |-> NoError]

\* slice mode: self.input.get(..len), the cursor moving only when the bytes are there
parse_bytes(s) == bytes_of(parse_length(s))

utf8_of(r) ==
    IF ~r.ok THEN r
    ELSE IF Utf8Valid(r.val) THEN r
    ELSE [s |-> r.s, ok |-> FALSE, val |-> <<>>, err |-> Err("Utf8")]

\* parse_string of either mode: the bytes, then the UTF-8 check
parse_string(s) == utf8_of(IF s.mode = "slice" THEN parse_bytes(s) ELSE parse_vec(s))

(***************************************************************************)
(* Depth guard.                                                            *)
(***************************************************************************)
\* mutant: the last unit of depth is never handed out
enter_named_container_early(s, name) ==
    IF s.max_remaining_depth <= 1
    THEN [s |-> s, ok |-> FALSE,
          err |-> [kind |-> "ExceededContainerDepthLimit", name |-> name, len |-> <<0, 0>>]]
    ELSE [s |-> [s EXCEPT !.max_remaining_depth = @ - 1], ok |-> TRUE, err |-> NoError]

enter_named_container(s, name) ==
    IF s.max_remaining_depth = 0
    THEN [s |-> s, ok |-> FALSE,
          err |-> [kind |-> "ExceededContainerDepthLimit", name |-> name, len |-> <<0, 0>>]]
    ELSE [s |-> [s EXCEPT !.max_remaining_depth = @ - 1], ok |-> TRUE, err |-> NoError]

leave_named_container(s) == [s EXCEPT !.max_remaining_depth = @ + 1]

(***************************************************************************)
(* Top-level drivers.                                                      *)
(***************************************************************************)
NotSupportedLimit ==
    [kind |-> "NotSupported", name |-> "limit exceeds the max allowed depth", len |-> <<0, 0>>]

\* from_bytes, from_bytes_seed and their _with_limit variants, up to T::deserialize
from_bytes(s) ==
    IF s.with_limit /\ s.limit > MAX_CONTAINER_DEPTH
    THEN [s EXCEPT !.pc = "done",
                   !.result = [ok |-> FALSE, val |-> <<>>, err |-> NotSupportedLimit]]
    ELSE Call([s EXCEPT !.max_remaining_depth =
                            IF s.with_limit THEN s.limit ELSE MAX_CONTAINER_DEPTH],
              s.shape)

\* mutant: the limit is taken as it comes
from_reader_unchecked(s) ==
    Call([s EXCEPT !.max_remaining_depth =
                       IF s.with_limit THEN s.limit ELSE MAX_CONTAINER_DEPTH,
                   !.captured_keys = <<>>],
         s.shape)

\* from_reader, from_reader_seed and their _with_limit variants, up to T::deserialize
from_reader(s) ==
    IF s.with_limit /\ s.limit > MAX_CONTAINER_DEPTH
    THEN [s EXCEPT !.pc = "done",
                   !.result = [ok |-> FALSE, val |-> <<>>, err |-> NotSupportedLimit]]
    ELSE Call([s EXCEPT !.max_remaining_depth =
                            IF s.with_limit THEN s.limit ELSE MAX_CONTAINER_DEPTH,
                        !.captured_keys = <<>>],
              s.shape)

\* mutant: bytes left over are let through
end_slice_lenient(s) == [s |-> s, ok |-> TRUE, err |-> NoError]

\* BcsDeserializer::end of the slice mode
end_slice(s) ==
    IF s.input = <<>> THEN [s |-> s, ok |-> TRUE, err |-> NoError]
    ELSE [s |-> s, ok |-> FALSE, err |-> Err("RemainingInput")]

\* BcsDeserializer::end of the reader mode: one more byte is asked of the reader
end_reader(s) ==
    LET r == read_exact(s, 1) IN
    IF r.ok THEN [s |-> r.s, ok |-> FALSE, err |-> Err("RemainingInput")]
    ELSE [s |-> r.s, ok |-> TRUE, err |-> NoError]

end(s) == IF s.mode = "slice" THEN end_slice(s) ELSE end_reader(s)

\* the driver's `deserializer.end()?; Ok(t)`
driver_end(s) ==
    LET e == end(s) IN
    [e.s EXCEPT !.pc = "done",
                !.result = IF e.ok THEN [ok |-> TRUE, val |-> s.value, err |-> NoError]
                           ELSE [ok |-> FALSE, val |-> <<>>, err |-> e.err]]

\* the driver's `T::deserialize(&mut deserializer)?` on an Err
driver_err(s) ==
    [s EXCEPT !.pc = "done", !.result = [ok |-> FALSE, val |-> <<>>, err |-> s.error]]

(***************************************************************************)
(* de::Deserializer: the shapes without a nested decode.                   *)
(***************************************************************************)
Finish(s, r) == IF r.ok THEN Return(r.s, r.val) ELSE Fail(r.s, r.err)

deserialize_bool(s) == Finish(s, parse_bool(s))

\* deserialize_u8 .. deserialize_u128
deserialize_unsigned(s) == Finish(s, parse_uint(s, IntWidth(s.cur.k)))

\* deserialize_i8 .. deserialize_i128
signed_of(r, w) ==
    [s |-> r.s, ok |-> r.ok, val |-> IF r.ok THEN AsSigned(r.val, w) ELSE 0, err |-> r.err]

deserialize_signed(s) ==
    Finish(s, signed_of(parse_uint(s, IntWidth(s.cur.k)), IntWidth(s.cur.k)))

\* deserialize_any, _f32, _f64, _char, _ignored_any
deserialize_not_supported(s) ==
    Fail(s, [kind |-> "NotSupported", name |-> "deserialize_" \o s.cur.k, len |-> <<0, 0>>])

\* deserialize_str, deserialize_string
deserialize_str(s) == Finish(s, parse_string(s))

\* deserialize_bytes, deserialize_byte_buf, deserialize_identifier
deserialize_bytes(s) ==
    Finish(s, IF s.mode = "slice" THEN parse_bytes(s) ELSE parse_vec(s))

deserialize_unit(s) == Return(s, <<>>)

deserialize_unit_struct(s) ==
    LET e == enter_named_container(s, s.cur.name) IN
    IF ~e.ok THEN Fail(e.s, e.err)
    ELSE leave_named_container(deserialize_unit(e.s))

(***************************************************************************)
(* de::Deserializer: the shapes with nested decodes.                       *)
(***************************************************************************)
\* visit_none, or visit_some(self), whose visitor decodes the payload at once
option_of(s, r) ==
    IF ~r.ok THEN Fail(r.s, r.err)
    ELSE IF r.data[1] = 0 THEN Return(r.s, <<>>)
    ELSE IF r.data[1] = 1
    THEN Call(Push(r.s, Frame(s.cur, 1, "fields")), s.cur.fields[1])
    ELSE Fail(r.s, Err("ExpectedOption"))

deserialize_option(s) == option_of(s, next(s))

\* visit_newtype_struct(self), whose visitor decodes the payload at once
deserialize_newtype_struct(s) ==
    LET e == enter_named_container(s, s.cur.name) IN
    IF ~e.ok THEN Fail(e.s, e.err)
    ELSE Call(Push(e.s, Frame(s.cur, 1, "fields")), s.cur.fields[1])

Visit(s, f) == [Push(s, f) EXCEPT !.pc = "visit", !.cur = NoShape]

\* SeqDeserializer::new(self, len) / MapDeserializer::new(self, len) handed to the visitor
counted(s, l, phase) ==
    IF ~l.ok THEN Fail(l.s, l.err)
    ELSE Visit(l.s, Frame(s.cur, l.val, phase))

deserialize_seq(s) == counted(s, parse_length(s), "elems")

deserialize_tuple(s) == Visit(s, Frame(s.cur, Len(s.cur.fields), "fields"))

deserialize_tuple_struct(s) ==
    LET e == enter_named_container(s, s.cur.name) IN
    IF ~e.ok THEN Fail(e.s, e.err)
    ELSE Visit(e.s, Frame(s.cur, Len(s.cur.fields), "fields"))

deserialize_map(s) == counted(s, parse_length(s), "val")

deserialize_struct(s) ==
    LET e == enter_named_container(s, s.cur.name) IN
    IF ~e.ok THEN Fail(e.s, e.err)
    ELSE Visit(e.s, Frame(s.cur, Len(s.cur.fields), "fields"))

deserialize_enum(s) ==
    LET e == enter_named_container(s, s.cur.name) IN
    IF ~e.ok THEN Fail(e.s, e.err)
    ELSE Visit(e.s, Frame(s.cur, 0, "tag"))

(***************************************************************************)
(* SeqAccess.                                                              *)
(***************************************************************************)
\* the shape the visitor's seed decodes next
ElementShape(f) ==
    IF f.shape.k = "seq" THEN f.shape.fields[1] ELSE f.shape.fields[Len(f.vals) + 1]

\* SeqDeserializer::next_element_seed; on None the visitor stops asking
\* mutant: None is reported with one element still to come
next_element_seed_early(s) ==
    LET n == Len(s.stack) IN
    IF Top(s).remaining <= 1
    THEN [s EXCEPT !.stack[n].phase = "done"]
    ELSE Call([s EXCEPT !.stack[n].remaining = @ - 1], ElementShape(Top(s)))

next_element_seed(s) ==
    LET n == Len(s.stack) IN
    IF Top(s).remaining = 0
    THEN [s EXCEPT !.stack[n].phase = "done"]
    ELSE Call([s EXCEPT !.stack[n].remaining = @ - 1], ElementShape(Top(s)))

(***************************************************************************)
(* MapAccess and the key capture of the two modes.                         *)
(***************************************************************************)
\* BcsDeserializer::next_key_seed, reader mode, up to seed.deserialize
next_key_seed_reader_push(s) ==
    [s EXCEPT !.captured_keys = Append(@, <<>>)]

\* mutant: the key bytes are copied and the buffer stays
next_key_seed_reader_pop_keep(s) ==
    [s |-> s, key_bytes |-> s.captured_keys[Len(s.captured_keys)]]

\* mutant: the popped bytes are not appended to the buffer beneath
next_key_seed_reader_pop_no_extend(s) ==
    LET caps == s.captured_keys IN
    [s |-> [s EXCEPT !.captured_keys = Take(caps, Len(caps) - 1)],
     key_bytes |-> caps[Len(caps)]]

\* BcsDeserializer::next_key_seed, reader mode, after seed.deserialize returned Ok
next_key_seed_reader_pop(s) ==
    LET caps == s.captured_keys
        key_bytes == caps[Len(caps)]
        rest == Take(caps, Len(caps) - 1)
    IN [s |-> [s EXCEPT !.captured_keys =
                            IF rest = <<>> THEN rest
                            ELSE [rest EXCEPT ![Len(rest)] = @ \o key_bytes]],
        key_bytes |-> key_bytes]

\* BcsDeserializer::next_key_seed, slice mode, up to seed.deserialize
next_key_seed_slice_save(s) ==
    [s EXCEPT !.stack[Len(s.stack)].previous_input_slice = s.input]

\* BcsDeserializer::next_key_seed, slice mode, after seed.deserialize returned Ok
next_key_seed_slice_cut(s) ==
    LET previous_input_slice == Top(s).previous_input_slice
        d == Len(previous_input_slice) - Len(s.input)
        key_len == IF d < 0 THEN 0 ELSE d
    IN [s |-> s, key_bytes |-> Take(previous_input_slice, key_len)]

\* MapDeserializer::next_key_seed up to the decode of the key
map_next_key_seed(s) ==
    LET n == Len(s.stack) IN
    IF Top(s).remaining - 1 < 0
    THEN [s EXCEPT !.stack[n].phase = "done"]
    ELSE LET t == IF s.mode = "slice" THEN next_key_seed_slice_save(s)
                  ELSE next_key_seed_reader_push(s)
         IN Call([t EXCEPT !.stack[n].phase = "key",
                           !.stack[n].key_start = Consumed(s)],
                 Top(s).shape.fields[1])

\* MapDeserializer::next_key_seed once the key is decoded
map_next_key_seed_ret(s) ==
    LET n == Len(s.stack)
        k == IF s.mode = "slice" THEN next_key_seed_slice_cut(s)
             ELSE next_key_seed_reader_pop(s)
        f == Top(s)
        span == <<f.key_start, Consumed(s)>>
    IN IF f.previous_key_bytes.some /\ SliceGe(f.previous_key_bytes.bytes, k.key_bytes)
       THEN Fail([k.s EXCEPT !.stack[n].phase = "rejected",
                             !.stack[n].key_bytes = k.key_bytes,
                             !.stack[n].key_spans = Append(@, span)],
                 Err("NonCanonicalMap"))
       ELSE [k.s EXCEPT !.stack[n].remaining = @ - 1,
                        !.stack[n].previous_key_bytes = [some |-> TRUE, bytes |-> k.key_bytes],
                        !.stack[n].key_bytes = k.key_bytes,
                        !.stack[n].key_spans = Append(@, span),
                        !.stack[n].phase = "gotkey"]

\* MapDeserializer::next_value_seed
next_value_seed(s) ==
    Call([s EXCEPT !.stack[Len(s.stack)].phase = "val"], Top(s).shape.fields[2])

(***************************************************************************)
(* EnumAccess and VariantAccess.                                           *)
(***************************************************************************)
\* what the variant seed makes of the index: a derived enum knows its variants,
\* an "enum_index" seed takes any u32 and reads a unit variant
KnownVariant(sh, idx) ==
    sh.k = "enum_index" \/ (idx[2] = 0 /\ idx[1] < Len(sh.fields))

VariantShape(f) ==
    IF f.shape.k = "enum_index" THEN Sh("unit_variant", "", <<>>)
    ELSE f.shape.fields[AsUsize(f.vals[1]) + 1]

\* seed.deserialize(variant_index.into_deserializer())
variant_of(s, r) ==
    LET n == Len(s.stack) IN
    IF ~r.ok THEN Fail(r.s, r.err)
    ELSE IF ~KnownVariant(Top(s).shape, r.val)
    THEN Fail(r.s, [kind |-> "Custom", name |-> "unknown variant", len |-> r.val])
    ELSE [r.s EXCEPT !.stack[n].vals = <<r.val>>, !.stack[n].phase = "variant"]

variant_seed(s) == variant_of(s, parse_u32_from_uleb128(s))

unit_variant(s) ==
    LET n == Len(s.stack) IN
    [s EXCEPT !.stack[n].vals = Append(@, <<>>), !.stack[n].phase = "payload"]

newtype_variant_seed(s) ==
    Call([s EXCEPT !.stack[Len(s.stack)].phase = "payload"],
         VariantShape(Top(s)).fields[1])

\* de::Deserializer::deserialize_tuple(self, len, visitor)
tuple_variant(s) ==
    Call([s EXCEPT !.stack[Len(s.stack)].phase = "payload"],
         Sh("tuple", "", VariantShape(Top(s)).fields))

\* de::Deserializer::deserialize_tuple(self, fields.len(), visitor)
struct_variant(s) ==
    Call([s EXCEPT !.stack[Len(s.stack)].phase = "payload"],
         Sh("tuple", "", VariantShape(Top(s)).fields))

(***************************************************************************)
(* The return of a container's deserialize_* method.                       *)
(***************************************************************************)
\* what the visitor builds of the values it was given
VisitorValue(f) ==
    IF f.shape.k = "newtype_struct" THEN f.vals[1] ELSE f.vals

\* Ok path: `self.leave_named_container(); r` of a named container, `visitor.visit_*(..)` of the others
container_return(s) ==
    LET f == Top(s)
        p == IF f.shape.k \in NamedKinds THEN leave_named_container(Pop(s)) ELSE Pop(s)
    IN Return(p, VisitorValue(f))

\* mutant: the error leaves through `?`, past leave_named_container
container_err_no_leave(s) == Pop(s)

\* Err path through one container: a named one still leaves, `?` drops the others
container_err(s) ==
    LET f == Top(s) IN
    IF f.shape.k \in NamedKinds THEN leave_named_container(Pop(s)) ELSE Pop(s)

(***************************************************************************)
(* Which handler runs next.  serde's generated code picks the              *)
(* deserialize_* method by the target type, and the visitor of a container *)
(* picks the accessor method by how far it has got.                        *)
(***************************************************************************)
CallHandler(k) ==
    CASE k = "bool" -> "deserialize_bool"
      [] k \in UnsignedKinds -> "deserialize_unsigned"
      [] k \in SignedKinds -> "deserialize_signed"
      [] k \in UnsupportedKinds -> "deserialize_not_supported"
      [] k = "str" -> "deserialize_str"
      [] k = "bytes" -> "deserialize_bytes"
      [] k = "unit" -> "deserialize_unit"
      [] k = "unit_struct" -> "deserialize_unit_struct"
      [] k = "option" -> "deserialize_option"
      [] k = "newtype_struct" -> "deserialize_newtype_struct"
      [] k = "seq" -> "deserialize_seq"
      [] k = "tuple" -> "deserialize_tuple"
      [] k = "tuple_struct" -> "deserialize_tuple_struct"
      [] k = "map" -> "deserialize_map"
      [] k = "struct" -> "deserialize_struct"
      [] k \in {"enum", "enum_index"} -> "deserialize_enum"

VisitHandler(f) ==
    CASE f.shape.k \in {"struct", "tuple_struct", "tuple"} ->
            IF Len(f.vals) < Len(f.shape.fields) THEN "next_element_seed"
            ELSE "container_return"
      [] f.shape.k = "seq" ->
            IF f.phase = "elems" THEN "next_element_seed" ELSE "container_return"
      [] f.shape.k \in {"newtype_struct", "option"} -> "container_return"
      [] f.shape.k = "map" ->
            (CASE f.phase = "val" -> "map_next_key_seed"
               [] f.phase = "key" -> "map_next_key_seed_ret"
               [] f.phase = "gotkey" -> "next_value_seed"
               [] f.phase = "done" -> "container_return")
      [] f.shape.k \in {"enum", "enum_index"} ->
            (CASE f.phase = "tag" -> "variant_seed"
               [] f.phase = "variant" -> VariantShape(f).k
               [] f.phase = "payload" -> "container_return")

Handler(s) ==
    CASE s.pc = "start" -> IF s.mode = "slice" THEN "from_bytes" ELSE "from_reader"
      [] s.pc = "call" -> CallHandler(s.cur.k)
      [] s.pc = "visit" -> VisitHandler(Top(s))
      [] s.pc = "err" -> IF s.stack = <<>> THEN "driver_err" ELSE "container_err"
      [] s.pc = "end" -> "driver_end"
      [] s.pc = "done" -> "none"

\* one handler, applied to the decoder state
Step(s) ==
    LET h == Handler(s) IN
    CASE h = "from_bytes" -> from_bytes(s)
      [] h = "from_reader" -> from_reader(s)
      [] h = "driver_end" -> driver_end(s)
      [] h = "driver_err" -> driver_err(s)
      [] h = "deserialize_bool" -> deserialize_bool(s)
      [] h = "deserialize_unsigned" -> deserialize_unsigned(s)
      [] h = "deserialize_signed" -> deserialize_signed(s)
      [] h = "deserialize_not_supported" -> deserialize_not_supported(s)
      [] h = "deserialize_str" -> deserialize_str(s)
      [] h = "deserialize_bytes" -> deserialize_bytes(s)
      [] h = "deserialize_unit" -> deserialize_unit(s)
      [] h = "deserialize_unit_struct" -> deserialize_unit_struct(s)
      [] h = "deserialize_option" -> deserialize_option(s)
      [] h = "deserialize_newtype_struct" -> deserialize_newtype_struct(s)
      [] h = "deserialize_seq" -> deserialize_seq(s)
      [] h = "deserialize_tuple" -> deserialize_tuple(s)
      [] h = "deserialize_tuple_struct" -> deserialize_tuple_struct(s)
      [] h = "deserialize_map" -> deserialize_map(s)
      [] h = "deserialize_struct" -> deserialize_struct(s)
      [] h = "deserialize_enum" -> deserialize_enum(s)
      [] h = "next_element_seed" -> next_element_seed(s)
      [] h = "map_next_key_seed" -> map_next_key_seed(s)
      [] h = "map_next_key_seed_ret" -> map_next_key_seed_ret(s)
      [] h = "next_value_seed" -> next_value_seed(s)
      [] h = "variant_seed" -> variant_seed(s)
      [] h = "unit_variant" -> unit_variant(s)
      [] h = "newtype_variant" -> newtype_variant_seed(s)
      [] h = "tuple_variant" -> tuple_variant(s)
      [] h = "struct_variant" -> struct_variant(s)
      [] h = "container_return" -> container_return(s)
      [] h = "container_err" -> container_err(s)

\* a whole top-level decode: the driver's call, as a function of its arguments
RECURSIVE Run(_)
Run(s) == IF s.pc = "done" THEN s ELSE Run(Step(s))

\* the state a driver is called in
Start(m, sh, b, wl, l) ==
    [mode |-> m, bytes |-> b, shape |-> sh, with_limit |-> wl, limit |-> l,
     pc |-> "start", cur |-> NoShape, input |-> b, max_remaining_depth |-> 0,
     captured_keys |-> <<>>, stack |-> <<>>, error |-> NoError, value |-> <<>>,
     result |-> NoResult]

Decode(m, sh, b, wl, l) == Run(Start(m, sh, b, wl, l)).result

(***************************************************************************)
(* The state machine.                                                      *)
(***************************************************************************)
St ==
    [mode |-> mode, bytes |-> bytes, shape |-> shape, with_limit |-> with_limit,
     limit |-> limit, pc |-> pc, cur |-> cur, input |-> input,
     max_remaining_depth |-> max_remaining_depth, captured_keys |-> captured_keys,
     stack |-> stack, error |-> error, value |-> value, result |-> result]

Apply(t) ==
    /\ pc' = t.pc
    /\ cur' = t.cur
    /\ input' = t.input
    /\ max_remaining_depth' = t.max_remaining_depth
    /\ captured_keys' = t.captured_keys
    /\ stack' = t.stack
    /\ error' = t.error
    /\ value' = t.value
    /\ result' = t.result
    /\ UNCHANGED <<mode, bytes, shape, with_limit, limit>>

A_from_bytes == Handler(St) = "from_bytes" /\ Apply(from_bytes(St))
A_from_reader == Handler(St) = "from_reader" /\ Apply(from_reader(St))
A_driver_end == Handler(St) = "driver_end" /\ Apply(driver_end(St))
A_driver_err == Handler(St) = "driver_err" /\ Apply(driver_err(St))
A_deserialize_bool == Handler(St) = "deserialize_bool" /\ Apply(deserialize_bool(St))
A_deserialize_unsigned == Handler(St) = "deserialize_unsigned" /\ Apply(deserialize_unsigned(St))
A_deserialize_signed == Handler(St) = "deserialize_signed" /\ Apply(deserialize_signed(St))
A_deserialize_not_supported == Handler(St) = "deserialize_not_supported" /\ Apply(deserialize_not_supported(St))
A_deserialize_str == Handler(St) = "deserialize_str" /\ Apply(deserialize_str(St))
A_deserialize_bytes == Handler(St) = "deserialize_bytes" /\ Apply(deserialize_bytes(St))
A_deserialize_unit == Handler(St) = "deserialize_unit" /\ Apply(deserialize_unit(St))
A_deserialize_unit_struct == Handler(St) = "deserialize_unit_struct" /\ Apply(deserialize_unit_struct(St))
A_deserialize_option == Handler(St) = "deserialize_option" /\ Apply(deserialize_option(St))
A_deserialize_newtype_struct == Handler(St) = "deserialize_newtype_struct" /\ Apply(deserialize_newtype_struct(St))
A_deserialize_seq == Handler(St) = "deserialize_seq" /\ Apply(deserialize_seq(St))
A_deserialize_tuple == Handler(St) = "deserialize_tuple" /\ Apply(deserialize_tuple(St))
A_deserialize_tuple_struct == Handler(St) = "deserialize_tuple_struct" /\ Apply(deserialize_tuple_struct(St))
A_deserialize_map == Handler(St) = "deserialize_map" /\ Apply(deserialize_map(St))
A_deserialize_struct == Handler(St) = "deserialize_struct" /\ Apply(deserialize_struct(St))
A_deserialize_enum == Handler(St) = "deserialize_enum" /\ Apply(deserialize_enum(St))
A_next_element_seed == Handler(St) = "next_element_seed" /\ Apply(next_element_seed(St))
A_map_next_key_seed == Handler(St) = "map_next_key_seed" /\ Apply(map_next_key_seed(St))
A_map_next_key_seed_ret == Handler(St) = "map_next_key_seed_ret" /\ Apply(map_next_key_seed_ret(St))
A_next_value_seed == Handler(St) = "next_value_seed" /\ Apply(next_value_seed(St))
A_variant_seed == Handler(St) = "variant_seed" /\ Apply(variant_seed(St))
A_unit_variant == Handler(St) = "unit_variant" /\ Apply(unit_variant(St))
A_newtype_variant_seed == Handler(St) = "newtype_variant" /\ Apply(newtype_variant_seed(St))
A_tuple_variant == Handler(St) = "tuple_variant" /\ Apply(tuple_variant(St))
A_struct_variant == Handler(St) = "struct_variant" /\ Apply(struct_variant(St))
A_container_return == Handler(St) = "container_return" /\ Apply(container_return(St))
A_container_err == Handler(St) = "container_err" /\ Apply(container_err(St))

Next ==
    \/ A_from_bytes
    \/ A_from_reader
    \/ A_driver_end
    \/ A_driver_err
    \/ A_deserialize_bool
    \/ A_deserialize_unsigned
    \/ A_deserialize_signed
    \/ A_deserialize_not_supported
    \/ A_deserialize_str
    \/ A_deserialize_bytes
    \/ A_deserialize_unit
    \/ A_deserialize_unit_struct
    \/ A_deserialize_option
    \/ A_deserialize_newtype_struct
    \/ A_deserialize_seq
    \/ A_deserialize_tuple
    \/ A_deserialize_tuple_struct
    \/ A_deserialize_map
    \/ A_deserialize_struct
    \/ A_deserialize_enum
    \/ A_next_element_seed
    \/ A_map_next_key_seed
    \/ A_map_next_key_seed_ret
    \/ A_next_value_seed
    \/ A_variant_seed
    \/ A_unit_variant
    \/ A_newtype_variant_seed
    \/ A_tuple_variant
    \/ A_struct_variant
    \/ A_container_return
    \/ A_container_err

(***************************************************************************)
(* The inputs: target types, byte strings, depth limits.                   *)
(***************************************************************************)
U8 == Sh("u8", "", <<>>)
U16 == Sh("u16", "", <<>>)
Bool == Sh("bool", "", <<>>)
Unit == Sh("unit", "", <<>>)
Option(t) == Sh("option", "", <<t>>)
SeqOf(t) == Sh("seq", "", <<t>>)
MapOf(k, v) == Sh("map", "", <<k, v>>)
Tuple(fs) == Sh("tuple", "", fs)
Struct(name, fs) == Sh("struct", name, fs)
Newtype(name, t) == Sh("newtype_struct", name, <<t>>)

\* struct SocketAddr { ip: Ip, port: Port } of the from_bytes example
SocketAddr ==
    Struct("SocketAddr", <<Newtype("Ip", Tuple(<<U8, U8, U8, U8>>)), Newtype("Port", U16)>>)

EnumE ==
    Sh("enum", "E",
       <<Sh("unit_variant", "A", <<>>),
         Sh("newtype_variant", "B", <<U8>>),
         Sh("tuple_variant", "C", <<U8, Bool>>),
         Sh("struct_variant", "D", <<U8>>)>>)

BaseShapes ==
    {U8, U16, Bool, Unit,
     Sh("i8", "", <<>>), Sh("f32", "", <<>>), Sh("str", "", <<>>), Sh("bytes", "", <<>>),
     Sh("unit_struct", "U", <<>>), Sh("enum_index", "Tag", <<>>), Option(U8), Newtype("N", U8), SeqOf(U8),
     Tuple(<<U8, Bool>>), Sh("tuple_struct", "T", <<U8, U8>>),
     Struct("S", <<U8, Option(Bool)>>), MapOf(U8, U8), EnumE}

U32 == Sh("u32", "", <<>>)
U64 == Sh("u64", "", <<>>)
U128 == Sh("u128", "", <<>>)
Bytes == Sh("bytes", "", <<>>)
Str == Sh("str", "", <<>>)
UnitStruct(name) == Sh("unit_struct", name, <<>>)

\* an enum decoded with a seed that takes any variant index and reads a unit variant
EnumIndex == Sh("enum_index", "Tag", <<>>)

Modes == {"slice", "reader"}

SmallBytes == {0, 1, 2, 3}

InitWith(ms, shs, ins, wls, ls) ==
    /\ mode \in ms
    /\ shape \in shs
    /\ bytes \in ins
    /\ with_limit \in wls
    /\ limit \in ls
    /\ pc = "start"
    /\ cur = NoShape
    /\ input = bytes
    /\ max_remaining_depth = 0
    /\ captured_keys = <<>>
    /\ stack = <<>>
    /\ error = NoError
    /\ value = <<>>
    /\ result = NoResult

\* every kind of shape on every short input
InitBase == InitWith(Modes, BaseShapes, Seqs(SmallBytes, MaxLen), {FALSE}, {0})

\* ULEB128: digits 0, 15, 31, and the continuation bytes 0x80, 0xff
UlebBytes == {0, 15, 31, 128, 255}

\* every short byte string, and five continuation bytes with a terminator after them
UlebInputs ==
    Seqs(UlebBytes, MaxUlebLen)
    \cup {c \o x : c \in [1..5 -> {128, 255}], x \in {<<0>>, <<15>>}}

InitUleb == InitWith(Modes, {EnumIndex}, UlebInputs, {FALSE}, {0})

\* lengths around MAX_SEQUENCE_LENGTH: four continuation bytes, then up to MaxLenTail more
LenInputs ==
    {c \o x : c \in [1..4 -> {128, 255}], x \in Seqs({0, 1, 7, 8, 15, 16}, MaxLenTail)}

LenShapes == {SeqOf(U8), MapOf(U8, U8), Bytes, Str}

InitLen == InitWith(Modes, LenShapes, LenInputs, {FALSE}, {0})

\* maps: keys of fixed and of variable length, a map as a key, a map as a value
MapShapes ==
    {MapOf(U8, U8), MapOf(Unit, U8), MapOf(Bytes, Unit),
     MapOf(MapOf(U8, U8), Unit), MapOf(U8, MapOf(U8, Unit)),
     MapOf(MapOf(MapOf(U8, Unit), Unit), Unit)}

InitMap == InitWith(Modes, MapShapes, Seqs({0, 1, 2}, MaxMapLen), {FALSE}, {0})

\* fixed-width integers on inputs whose bytes differ from place to place
IntInputs ==
    {[i \in 1..n |-> (a + (i - 1) * d) % 256] :
        n \in 0..MaxIntLen, a \in {0, 1, 127, 240}, d \in {0, 1, 17}}
    \cup {<<127, 0, 0, 1, 65, 31>>}

IntShapes ==
    {U8, U16, U32, U64, U128,
     Sh("i8", "", <<>>), Sh("i16", "", <<>>), Sh("i32", "", <<>>),
     SocketAddr, Tuple(<<U16, U32>>), Struct("P", <<U32, U8, U64>>)}

InitInt == InitWith(Modes, IntShapes, IntInputs, {FALSE}, {0})

\* containers nested in containers, under small depth limits
LevelName(i) == <<"L1", "L2", "L3", "L4", "L5", "L6">>[i]

Wrappers == {"struct", "newtype_struct", "enum", "option"}

Wrap(w, name, inner) ==
    CASE w = "struct" -> Struct(name, <<inner>>)
      [] w = "newtype_struct" -> Newtype(name, inner)
      [] w = "enum" -> Sh("enum", name, <<Sh("tuple_variant", "V", <<inner>>)>>)
      [] w = "option" -> Option(inner)

\* ws[1] is the outermost wrapper
RECURSIVE Nest(_, _, _)
Nest(ws, i, leaf) ==
    IF i > Len(ws) THEN leaf ELSE Wrap(ws[i], LevelName(i), Nest(ws, i + 1, leaf))

DepthShapes ==
    {Nest(ws, 1, leaf) :
        ws \in Seqs(Wrappers, MaxNest),
        leaf \in {UnitStruct("Leaf"), Sh("tuple_struct", "Leaf", <<Tuple(<<U8>>), SeqOf(Unit)>>)}}

DepthLimits == 0..MaxNest

InitDepth == InitWith(Modes, DepthShapes, Seqs({0, 1}, MaxDepthIn), {TRUE}, DepthLimits)

\* the _with_limit drivers around MAX_CONTAINER_DEPTH
InitLimit ==
    InitWith(Modes, {U8, SocketAddr, SeqOf(Newtype("N", U8))}, Seqs({0, 1}, MaxLen),
             {FALSE, TRUE},
             {0, 1, 2, MAX_CONTAINER_DEPTH - 1, MAX_CONTAINER_DEPTH, MAX_CONTAINER_DEPTH + 1})

Init == InitBase \/ InitLen \/ InitLimit \/ InitInt

Spec == Init /\ [][Next]_vars

SpecUleb == (InitBase \/ InitUleb) /\ [][Next]_vars

SpecMap == (InitBase \/ InitMap) /\ [][Next]_vars

SpecDepth == (InitBase \/ InitDepth) /\ [][Next]_vars

\* the actions are the handlers: every step of the machine is Step
StepIsNext == [][St' = Step(St)]_vars

(***************************************************************************)
(* ULEB128 (checked under SpecUleb).                                       *)
(***************************************************************************)
\* parse_u32_from_uleb128 has just run on the whole input, as the tag of the top-level enum
UlebRan ==
    /\ shape.k = "enum_index"
    /\ Len(stack) = 1
    /\ \/ pc = "visit" /\ stack[1].phase = "variant"
       \/ pc = "err" /\ stack[1].phase = "tag"

\* the place of the first byte with the high bit 0 among the first five, 0 if there is none
TermIndex(b) ==
    LET S == {i \in 1..Min(5, Len(b)) : b[i] < 128} IN
    IF S = {} THEN 0 ELSE CHOOSE i \in S : \A j \in S : i <= j

\* b is accepted as a whole and decodes to v
DecodesTo(b, v) ==
    LET r == parse_u32_from_uleb128(Start(mode, shape, b, FALSE, 0)) IN
    r.ok /\ r.s.input = <<>> /\ r.val = v

\* C1: the ULEB128 decoder takes canonical encodings only: an input whose
\* terminating byte (the first byte without the high bit that the decoder
\* reads, so one of the first five) is zero and is not the first byte is
\* rejected with NonCanonicalUleb128Encoding, a leading 0x00 decodes to 0, and
\* two byte strings the decoder accepts for the same value are the same string.
C1_UlebCanonical ==
    UlebRan =>
        LET n == TermIndex(bytes) IN
        /\ (n > 1 /\ bytes[n] = 0) =>
                pc = "err" /\ error.kind = "NonCanonicalUleb128Encoding"
        /\ (n = 1 /\ bytes[1] = 0) =>
                pc = "visit" /\ stack[1].vals[1] = <<0, 0>> /\ Consumed(St) = 1
        /\ (pc = "visit" /\ input = <<>>) =>
                \A b \in UlebInputs : DecodesTo(b, stack[1].vals[1]) => b = bytes

\* [0x80, 0x00], the non-minimal zero, is rejected
C1_Witness ==
    /\ UlebRan
    /\ bytes = <<128, 0>>
    /\ pc = "err"
    /\ error.kind = "NonCanonicalUleb128Encoding"

\* the value of digits d1..d5 (d5 <= 15), as limbs, by plain arithmetic
UlebValue(b, n) ==
    LET d(i) == IF i <= n THEN b[i] % 128 ELSE 0
        low == d(1) + 128 * d(2) + 16384 * d(3) + 2097152 * d(4)
    IN <<low % 65536, (low \div 65536) + 4096 * d(5)>>

\* C6: parse_u32_from_uleb128 answers IntegerOverflowDuringUleb128Decoding when
\* the value exceeds 2^32-1 or five bytes are read and none of them is a
\* terminating byte, and in no other case; it never consumes more than five
\* bytes, and a value it returns is the value of the digits and fits 32 bits;
\* ff ff ff ff 0f is 2^32-1, ff ff ff ff 1f overflows.
C6_UlebOverflow ==
    UlebRan =>
        LET n == TermIndex(bytes) IN
        /\ Consumed(St) <= 5
        /\ (n = 0 /\ Len(bytes) >= 5) =>
                pc = "err" /\ error.kind = "IntegerOverflowDuringUleb128Decoding"
        /\ (n = 5 /\ bytes[5] > 15) =>
                pc = "err" /\ error.kind = "IntegerOverflowDuringUleb128Decoding"
        /\ (pc = "err" /\ error.kind = "IntegerOverflowDuringUleb128Decoding") =>
                (n = 0 /\ Len(bytes) >= 5) \/ (n = 5 /\ bytes[5] > 15)
        /\ pc = "visit" =>
                /\ stack[1].vals[1] = UlebValue(bytes, n)
                /\ stack[1].vals[1][1] \in 0..65535
                /\ stack[1].vals[1][2] \in 0..65535
                /\ Consumed(St) = n
        /\ bytes = <<255, 255, 255, 255, 15>> =>
                pc = "visit" /\ stack[1].vals[1] = <<65535, 65535>>
        /\ bytes = <<255, 255, 255, 255, 31>> =>
                pc = "err" /\ error.kind = "IntegerOverflowDuringUleb128Decoding"

\* ff ff ff ff 1f is rejected as an overflow after its five bytes are read
C6_Witness ==
    /\ UlebRan
    /\ bytes = <<255, 255, 255, 255, 31>>
    /\ pc = "err"
    /\ error.kind = "IntegerOverflowDuringUleb128Decoding"
    /\ Consumed(St) = 5

(***************************************************************************)
(* Maps (checked under SpecMap).                                           *)
(***************************************************************************)
\* the input bytes between two cursor positions
Raw(span) == SubSeq(bytes, span[1] + 1, span[2])

\* a < b as byte strings: a proper prefix, or smaller at the first difference
LexLess(a, b) ==
    \E k \in 0..Min(Len(a), Len(b)) :
        /\ \A i \in 1..k : a[i] = b[i]
        /\ k < Len(b)
        /\ (k < Len(a) => a[k + 1] < b[k + 1])

MapFrames == {i \in 1..Len(stack) : stack[i].shape.k = "map"}

\* the keys of frame f that next_key_seed let through
Accepted(f) ==
    IF f.phase = "rejected" THEN Len(f.key_spans) - 1 ELSE Len(f.key_spans)

\* C2: in both modes the encoded bytes of every key a map decode has let
\* through are strictly greater, as byte strings, than those of the key before
\* it; the first key that is equal to or smaller than its predecessor fails
\* MapDeserializer::next_key_seed with NonCanonicalMap.
C2_MapKeysAscending ==
    \A i \in MapFrames :
        LET f == stack[i]
            n == Len(f.key_spans)
        IN /\ \A j \in 1..(Accepted(f) - 1) :
                    LexLess(Raw(f.key_spans[j]), Raw(f.key_spans[j + 1]))
           /\ f.phase = "rejected" =>
                    /\ n >= 2
                    /\ ~LexLess(Raw(f.key_spans[n - 1]), Raw(f.key_spans[n]))
                    /\ pc = "err"
                    /\ error.kind = "NonCanonicalMap"
           /\ (f.phase = "done" /\ pc = "visit") =>
                    n = Len(f.vals) \div 2 /\ f.remaining = 0

\* a second key equal to the first has just been refused
C2_Witness ==
    /\ stack # <<>>
    /\ LET f == stack[Len(stack)]
           n == Len(f.key_spans)
       IN /\ f.shape.k = "map"
          /\ f.phase = "rejected"
          /\ n = 2
          /\ Raw(f.key_spans[1]) = Raw(f.key_spans[2])
          /\ Raw(f.key_spans[1]) # <<>>
    /\ error.kind = "NonCanonicalMap"

\* the decision of a whole decode: accepted, refused as a non-canonical map, or other
Decision(r) ==
    IF r.ok THEN "accept"
    ELSE IF r.err.kind = "NonCanonicalMap" THEN "NonCanonicalMap"
    ELSE "other"

OtherMode == IF mode = "slice" THEN "reader" ELSE "slice"

\* C10: in both modes the key bytes next_key_seed hands to the comparison are
\* the input bytes consumed while that key was decoded, a key that holds a map
\* included, so the two modes decide alike on the same input.
C10_KeyBytesAreConsumed ==
    /\ \A i \in MapFrames :
            LET f == stack[i] IN
            /\ f.key_spans # <<>> => f.key_bytes = Raw(f.key_spans[Len(f.key_spans)])
            /\ f.previous_key_bytes.some =>
                    f.previous_key_bytes.bytes = Raw(f.key_spans[Accepted(f)])
    /\ pc = "done" =>
            Decision(Decode(OtherMode, shape, bytes, with_limit, limit)) = Decision(result)

\* reader mode: a key that is itself a map with an entry has been captured
C10_Witness ==
    /\ mode = "reader"
    /\ \E i \in MapFrames :
            /\ stack[i].shape.fields[1].k = "map"
            /\ stack[i].key_spans # <<>>
            /\ Len(stack[i].key_bytes) >= 3
            /\ stack[i].phase = "gotkey"

(***************************************************************************)
(* Depth of named containers (checked under SpecDepth).                    *)
(***************************************************************************)
\* the limit the decoder was constructed with
DepthLimit == IF with_limit THEN limit ELSE MAX_CONTAINER_DEPTH

Named == NamedKinds \cup {"unit_struct"}

\* named containers entered and not yet left
Entered == Cardinality({i \in 1..Len(stack) : stack[i].shape.k \in NamedKinds})

MaxOf(S) == IF S = {} THEN 0 ELSE CHOOSE x \in S : \A y \in S : y <= x

\* the deepest nesting of named containers a value of shape sh can have
RECURSIVE NamedDepth(_)
NamedDepth(sh) ==
    (IF sh.k \in Named THEN 1 ELSE 0)
    + MaxOf({NamedDepth(sh.fields[i]) : i \in 1..Len(sh.fields)})

DepthError(name) ==
    [kind |-> "ExceededContainerDepthLimit", name |-> name, len |-> <<0, 0>>]

\* one step of a decode under limit L, seen from its first state
DepthStep ==
    /\ pc \in {"call", "visit", "err"} => max_remaining_depth + Entered = DepthLimit
    /\ (pc = "call" /\ cur.k \in Named /\ Entered = DepthLimit) =>
            /\ pc' = "err"
            /\ error' = DepthError(cur.name)
            /\ input' = input
            /\ stack' = stack
    /\ (pc = "call" /\ cur.k \in Named /\ Entered < DepthLimit) =>
            /\ error'.kind # "ExceededContainerDepthLimit"
            /\ max_remaining_depth' =
                    IF cur.k = "unit_struct" \/ pc' = "err"
                    THEN max_remaining_depth ELSE max_remaining_depth - 1
    /\ (pc = "call" /\ cur.k \notin Named) =>
            /\ error'.kind # "ExceededContainerDepthLimit"
            /\ max_remaining_depth' = max_remaining_depth
    /\ pc = "visit" =>
            /\ error'.kind # "ExceededContainerDepthLimit"
            /\ max_remaining_depth' =
                    IF Len(stack') < Len(stack) /\ stack[Len(stack)].shape.k \in NamedKinds
                    THEN max_remaining_depth + 1 ELSE max_remaining_depth
    /\ pc' = "done" =>
            /\ NamedDepth(shape) <= DepthLimit =>
                    result'.err.kind # "ExceededContainerDepthLimit"
            /\ result'.ok => max_remaining_depth' = DepthLimit

\* C3: under a depth limit L the named containers (struct, enum, newtype
\* struct, tuple struct, unit struct) nest L deep without a depth error, and the
\* enter of a named container that finds L containers already entered fails
\* with ExceededContainerDepthLimit carrying that container's name; tuples,
\* sequences, maps, options and variant payloads take no depth, an enum takes one.
C3_DepthLimit == [][DepthStep]_vars

\* under a limit of at least two, the container at depth L+1 has been refused by name
C3_Witness ==
    /\ with_limit
    /\ limit >= 2
    /\ Entered = limit
    /\ pc = "err"
    /\ error = DepthError("Leaf")
    /\ \E i \in 1..Len(stack) : stack[i].shape.k = "enum" /\ stack[i].phase = "payload"

(***************************************************************************)
(* The drivers' last check, and inputs cut short (checked under Spec).     *)
(***************************************************************************)
\* the step of a driver after the value is decoded
EndStep ==
    /\ pc = "end" =>
            /\ pc' = "done"
            /\ result' =
                    IF input # <<>>
                    THEN [ok |-> FALSE, val |-> <<>>, err |-> Err("RemainingInput")]
                    ELSE [ok |-> TRUE, val |-> value, err |-> NoError]
    /\ (pc' = "done" /\ result'.ok) => pc = "end" /\ input = <<>>
    /\ (pc' = "done" /\ result'.err.kind = "RemainingInput") => pc = "end" /\ input # <<>>

\* C4: every driver answers RemainingInput, and no value, when the value is
\* decoded and a byte of the input is still unread (slice mode: the rest of
\* the slice is not empty; reader mode: one more read_exact of a byte
\* succeeds); it returns the value only with the cursor at the end of the input.
C4_RemainingInput == [][EndStep]_vars

\* reader mode: a decoded value was dropped for a byte left unread
C4_Witness ==
    /\ mode = "reader"
    /\ pc = "done"
    /\ result.err.kind = "RemainingInput"
    /\ value # <<>>
    /\ Consumed(St) = Len(bytes)
    /\ Len(bytes) >= 2

\* the last byte cut off
Truncated(b) == Take(b, Len(b) - 1)

IsEof(r) == ~r.ok /\ r.val = <<>> /\ r.err = Err("Eof")

\* C5: a non-empty input that a top-level decode accepts is, with its last
\* byte removed, refused with Eof: no value and no other error.
C5_TruncationIsEof ==
    (pc = "done" /\ result.ok /\ bytes # <<>>) =>
        IsEof(Decode(mode, shape, Truncated(bytes), with_limit, limit))

\* a byte string of two bytes behind its length prefix was accepted
C5_Witness ==
    /\ pc = "done"
    /\ result.ok
    /\ shape.k = "bytes"
    /\ Len(bytes) = 3
    /\ mode = "slice"

(***************************************************************************)
(* Length prefixes (checked under Spec).                                   *)
(***************************************************************************)
Sized == {"seq", "map", "str", "bytes"}

\* the input starts with a ULEB128 number the decoder takes
GoodPrefix(b) ==
    LET n == TermIndex(b) IN
    /\ n > 0
    /\ (n > 1 => b[n] # 0)
    /\ (n = 5 => b[5] <= 15)

\* limbs a above the number m
LimbsAbove(a, m) ==
    LET hi == m \div 65536 IN
    a[2] > hi \/ (a[2] = hi /\ a[1] > m - 65536 * hi)

\* a step that decodes a length prefix
LengthStep ==
    /\ (pc = "call" /\ cur.k \in Sized /\ GoodPrefix(input)) =>
            LET n == TermIndex(input)
                v == UlebValue(input, n)
            IN IF LimbsAbove(v, MAX_SEQUENCE_LENGTH)
               THEN /\ pc' = "err"
                    /\ error' = [kind |-> "ExceededMaxLen", name |-> "", len |-> v]
                    /\ input' = Drop(input, n)
                    /\ stack' = stack
                    /\ value' = value
               ELSE /\ error'.kind # "ExceededMaxLen"
                    /\ (pc' # "err" /\ cur.k \in {"seq", "map"}) =>
                            /\ Len(stack') = Len(stack) + 1
                            /\ stack'[Len(stack')].remaining = v[2] * 65536 + v[1]
                            /\ input' = Drop(input, n)
                    /\ (pc' # "err" /\ cur.k \in {"str", "bytes"}) =>
                            input' = Drop(input, n + v[2] * 65536 + v[1])
    /\ (pc = "call" /\ cur.k \notin Sized) => error'.kind # "ExceededMaxLen"
    /\ pc = "visit" => error'.kind # "ExceededMaxLen"
    /\ pc = "err" => input' = input /\ error' = error /\ pc' \in {"err", "done"}
    /\ \A i \in 1..Len(stack) :
            stack[i].shape.k \in {"seq", "map"} =>
                stack[i].remaining <= MAX_SEQUENCE_LENGTH

\* C7: a length prefix of a sequence, map, string or byte string above
\* MAX_SEQUENCE_LENGTH fails parse_length with ExceededMaxLen, and the decode
\* ends with the bytes of the prefix consumed and nothing else: no element,
\* key or payload byte is read, nothing is sized; a length that sizes a
\* sequence, map, string or byte string is at most MAX_SEQUENCE_LENGTH.
C7_LengthBound == [][LengthStep]_vars

\* a sequence announced 2^32-1 elements: the decode ended after the five bytes of the prefix
C7_Witness ==
    /\ pc = "done"
    /\ shape.k = "seq"
    /\ Len(bytes) > 5
    /\ Take(bytes, 5) = <<255, 255, 255, 255, 15>>
    /\ result.err = [kind |-> "ExceededMaxLen", name |-> "", len |-> <<65535, 65535>>]
    /\ Consumed(St) = 5

(***************************************************************************)
(* The limit handed to a driver (checked under Spec).                      *)
(***************************************************************************)
\* the first step of a driver
LimitStep ==
    pc = "start" =>
        IF with_limit /\ limit > MAX_CONTAINER_DEPTH
        THEN /\ pc' = "done"
             /\ ~result'.ok
             /\ result'.val = <<>>
             /\ result'.err.kind = "NotSupported"
             /\ input' = input
             /\ UNCHANGED <<max_remaining_depth, captured_keys, stack, cur, value>>
        ELSE /\ pc' = "call"
             /\ cur' = shape
             /\ input' = input
             /\ max_remaining_depth' = IF with_limit THEN limit ELSE MAX_CONTAINER_DEPTH

Fixed == {"struct", "tuple", "tuple_struct"}

\* the j-th byte, least significant first, of an unsigned value of w bytes
ByteOf(v, w, j) ==
    IF w = 1 THEN v
    ELSE IF w = 2 THEN (IF j = 1 THEN v % 256 ELSE v \div 256)
    ELSE LET limb == v[(j + 1) \div 2] IN
         IF j % 2 = 1 THEN limb % 256 ELSE limb \div 256

\* what the step handed back to its caller: the driver, or the visitor of the top frame
Handed ==
    IF stack = <<>> THEN value'
    ELSE stack'[Len(stack)].vals[Len(stack'[Len(stack)].vals)]

\* a step of the decode of a fixed-width unsigned integer or of a fixed-arity container
FixedStep ==
    /\ (pc = "call" /\ cur.k \in UnsignedKinds) =>
            LET w == IntWidth(cur.k) IN
            IF Len(input) >= w
            THEN /\ pc' = IF stack = <<>> THEN "end" ELSE "visit"
                 /\ input' = Drop(input, w)
                 /\ \A j \in 1..w : ByteOf(Handed, w, j) = input[j]
                 /\ Len(stack') = Len(stack)
            ELSE pc' = "err" /\ error'.kind = "Eof"
    /\ (pc = "call" /\ cur.k \in Fixed /\ pc' # "err") =>
            /\ input' = input
            /\ stack' = Append(stack, stack'[Len(stack')])
            /\ stack'[Len(stack')].shape = cur
            /\ stack'[Len(stack')].remaining = Len(cur.fields)
            /\ stack'[Len(stack')].vals = <<>>
    /\ (pc = "visit" /\ stack[Len(stack)].shape.k \in Fixed) =>
            LET f == stack[Len(stack)] IN
            /\ input' = input
            /\ Len(f.vals) + f.remaining = Len(f.shape.fields)
            /\ Len(f.vals) < Len(f.shape.fields) =>
                    pc' = "call" /\ cur' = f.shape.fields[Len(f.vals) + 1]
            /\ (Len(f.vals) = Len(f.shape.fields) /\ Len(stack') < Len(stack)) =>
                    /\ pc' = IF Len(stack) = 1 THEN "end" ELSE "visit"
                    /\ IF Len(stack) = 1 THEN value' = f.vals
                       ELSE LET g == stack'[Len(stack')] IN
                            g.vals[Len(g.vals)] = f.vals
    /\ (pc' = "done" /\ shape = SocketAddr /\ bytes = <<127, 0, 0, 1, 65, 31>>) =>
            /\ result' = [ok |-> TRUE, val |-> <<<<127, 0, 0, 1>>, 8001>>, err |-> NoError]
            /\ input' = <<>>
    /\ (pc' = "done" /\ shape = SocketAddr /\ result'.ok) => Len(bytes) = 6

\* C9: a struct or fixed-arity tuple is its fields in declaration order, with
\* no length prefix and no names on the wire; an unsigned integer of w bytes
\* (1, 2, 4, 8, 16) is the little-endian value of the next w bytes and moves
\* the cursor by w; 7f 00 00 01 41 1f, as a 4-byte array and a u16, is
\* [127,0,0,1] and 8001, six bytes in all.
C9_FixedLayout == [][FixedStep]_vars

\* the socket address of the example has been decoded
C9_Witness ==
    /\ pc = "done"
    /\ shape = SocketAddr
    /\ bytes = <<127, 0, 0, 1, 65, 31>>
    /\ result.ok
    /\ result.val[2] = 8001

(***************************************************************************)
(* The depth counter over a whole decode (checked under SpecDepth).        *)
(***************************************************************************)
\* the step returns from the container decode of the top frame, with Ok or with Err
Returns == pc \in {"visit", "err"} /\ Len(stack') = Len(stack) - 1

\* one step, as the depth counter sees it
CounterStep ==
    /\ max_remaining_depth \in 0..DepthLimit
    /\ max_remaining_depth' \in 0..DepthLimit
    /\ pc \in {"call", "visit", "err"} => max_remaining_depth = DepthLimit - Entered
    /\ IF pc = "call" /\ cur.k \in NamedKinds /\ Len(stack') = Len(stack) + 1
       THEN max_remaining_depth' = max_remaining_depth - 1
       ELSE IF Returns /\ stack[Len(stack)].shape.k \in NamedKinds
       THEN max_remaining_depth' = max_remaining_depth + 1
       ELSE IF pc = "start"
       THEN max_remaining_depth' = IF pc' = "call" THEN DepthLimit ELSE max_remaining_depth
       ELSE max_remaining_depth' = max_remaining_depth
    /\ (pc = "call" /\ cur.k \in Named /\ pc' = "err") =>
            /\ stack' = stack
            /\ max_remaining_depth' = max_remaining_depth
    /\ (pc = "call" /\ cur.k = "unit_struct") =>
            /\ Len(stack') = Len(stack)
            /\ max_remaining_depth' = max_remaining_depth
    /\ (pc' = "done" /\ pc # "start") => max_remaining_depth' = DepthLimit

\* C11: max_remaining_depth stays within 0..limit, and the decode of a named
\* container (struct, enum, newtype struct, tuple struct, unit struct) hands
\* the counter back as it found it, on Ok and on Err: an enter that succeeded
\* is followed by one leave, an enter that failed changes nothing.
C11_CounterRestored == [][CounterStep]_vars

\* two named containers were entered, the third was refused, and the error
\* has left both: the counter is back at the limit
C11_Witness ==
    /\ with_limit
    /\ limit = 2
    /\ pc = "err"
    /\ stack = <<>>
    /\ error.kind = "ExceededContainerDepthLimit"
    /\ max_remaining_depth = 2

(***************************************************************************)
(* The remaining count of SeqDeserializer (checked under Spec).            *)
(***************************************************************************)
\* the frames that hold a SeqDeserializer
SeqFrames == {i \in 1..Len(stack) : stack[i].shape.k \in {"seq", "tuple", "struct", "tuple_struct"}}

\* those whose count at construction can be read off the shape or the input:
\* the fixed-arity ones, and a top-level sequence with a one-byte length prefix
CountKnown ==
    {i \in SeqFrames :
        \/ stack[i].shape.k \in Fixed
        \/ i = 1 /\ shape.k = "seq" /\ bytes # <<>> /\ bytes[1] < 128}

\* the N of SeqDeserializer::new(de, N)
CountOf(i) ==
    IF stack[i].shape.k = "seq" THEN bytes[1] ELSE Len(stack[i].shape.fields)

\* elements of frame i that decoded successfully
Succeeded(i) == Len(stack[i].vals)

\* no next_element_seed call of frame i is under way: the last one has returned, Ok or Err
AtRest(i) == i = Len(stack) /\ pc \in {"visit", "err"}

\* elements of frame i whose decode was started: the successful ones, and the
\* one under way or failed
Started(i) ==
    Succeeded(i) + (IF i < Len(stack) \/ pc \in {"call", "err"} THEN 1 ELSE 0)

\* C12 as claimed: after any sequence of next_element_seed calls the remaining
\* count is N minus the number of elements that decoded successfully, a failed
\* element decode not being counted.
C12_Original ==
    \A i \in CountKnown : AtRest(i) => stack[i].remaining = CountOf(i) - Succeeded(i)

\* one step, as the remaining counts see it
ElementStep ==
    /\ \A i \in CountKnown :
            /\ stack[i].remaining = CountOf(i) - Started(i)
            /\ Succeeded(i) <= CountOf(i)
            /\ stack[i].remaining >= 0
    /\ IF pc = "visit" /\ Len(stack) \in SeqFrames /\ Handler(St) = "next_element_seed"
       THEN LET n == Len(stack) IN
            /\ input' = input
            /\ Len(stack') = n
            /\ stack'[n].vals = stack[n].vals
            /\ IF stack[n].remaining = 0
               THEN /\ pc' = "visit"
                    /\ stack'[n].remaining = 0
                    /\ stack'[n].phase = "done"
               ELSE /\ pc' = "call"
                    /\ cur' = ElementShape(stack[n])
                    /\ stack'[n].remaining = stack[n].remaining - 1
       ELSE \A i \in SeqFrames :
                i <= Len(stack') => stack'[i].remaining = stack[i].remaining

\* C12 as amended: the remaining count is decremented once per element whose
\* decode is started, before that element is decoded, so it is N minus the
\* elements started (those that succeeded and the one that failed); at zero
\* next_element_seed reports no more elements and consumes no input byte, so at
\* most N elements are decoded.
C12_CountedWhenStarted == [][ElementStep]_vars

\* the second element of a pair failed: one element decoded, none remaining
C12_Witness ==
    /\ pc = "err"
    /\ Len(stack) = 1
    /\ stack[1].shape.k = "tuple"
    /\ Len(stack[1].shape.fields) = 2
    /\ Len(stack[1].vals) = 1
    /\ stack[1].remaining = 0

(***************************************************************************)
(* The capture stack of the reader mode (checked under SpecMap).           *)
(***************************************************************************)
\* the map frames of st whose key is being decoded, outermost first
KeysOf(st) == {i \in 1..Len(st) : st[i].shape.k = "map" /\ st[i].phase = "key"}

KeyDepth(st) == Cardinality(KeysOf(st))

\* the j-th of them
NthKey(j) == CHOOSE i \in KeysOf(stack) : Cardinality({k \in KeysOf(stack) : k <= i}) = j

\* an error has been raised in this decode
Raised == pc = "err" \/ (pc = "done" /\ ~result.ok)

\* C13 as claimed: in every reachable state of the reader mode the depth of
\* captured_keys is the number of map-key decodes in progress, and the stack
\* is empty when none is.
C13_Original == mode = "reader" => Len(captured_keys) = KeyDepth(stack)

\* one step, as captured_keys sees it
CaptureStep ==
    /\ mode = "slice" => captured_keys = <<>>
    /\ (mode = "reader" /\ ~Raised) =>
            /\ Len(captured_keys) = KeyDepth(stack)
            /\ \A j \in 1..Len(captured_keys) :
                    captured_keys[j] =
                        SubSeq(bytes, stack[NthKey(j)].key_start + 1,
                               IF j = Len(captured_keys) THEN Consumed(St)
                               ELSE stack[NthKey(j + 1)].key_start)
    /\ (mode = "reader" /\ pc # "err" /\ pc' = "err") =>
            Len(captured_keys') = KeyDepth(stack')
    /\ pc = "err" => captured_keys' = captured_keys

\* C13 as amended: a buffer pushed at the start of a map-key decode is popped
\* when that key decode returns Ok and stays on the stack when it returns Err;
\* so while no error is raised the depth of captured_keys is the number of
\* key decodes in progress, each buffer holding the bytes read since its key
\* began, and the stack is empty when none is in progress; once an error is
\* raised the stack stays as deep as the key decodes then in progress.
C13_CaptureStack == [][CaptureStep]_vars

\* the key of a key failed: the error has left both maps and both buffers are still there
C13_Witness ==
    /\ mode = "reader"
    /\ pc = "err"
    /\ stack = <<>>
    /\ Len(captured_keys) = 2

====
